---- MODULE Spec2Model ----
(***************************************************************************)
(* Model of the CSV batch checker (checker.go): Processor.Run,             *)
(* Processor.processFile, Processor.validateRow and Processor.markError.   *)
(*                                                                         *)
(* Go strings are modelled as sequences of bytes (ASCII codes), so that    *)
(* string comparison, strings.HasPrefix, filepath.Ext, strings.Join and    *)
(* strconv.ParseInt are computed on the bytes as the Go code computes      *)
(* them.  A 64-bit integer is modelled as a sign and a magnitude written   *)
(* in decimal digits without leading zeros, so values above 2^31 and 2^32  *)
(* keep their exact value.                                                 *)
(*                                                                         *)
(* The three messages of validateRow are written with the names the        *)
(* specification gives them:                                               *)
(*   ERR_REPEAT      the message of checker.go line 173                    *)
(*   ERR_DUP_INSERT  the message of checker.go line 183                    *)
(*   ERR_MIN         the message of checker.go line 191                    *)
(***************************************************************************)
EXTENDS Integers, Sequences, FiniteSets, TLC

VARIABLES
    cfg,        \* Processor.cfg
    dir,        \* the directory's entries (the file system, a set)
    shuffled,   \* whether fs.ReadDir returned the entries out of name order
    entries,    \* Run's local slice `entries` after sort.Slice
    pc,         \* position in Run / processFile
    idx,        \* index of the range loop over entries (1-based)
    isInsert,   \* processFile's parameter isInsert
    isUpdate,   \* Run's local isUpdate for the current file
    fpr,        \* csv.Reader.FieldsPerRecord once the first record is read
    rowNum,     \* processFile's local rowNum
    errCount,   \* processFile's local errCount
    stats,      \* Run's local *Stats
    seenIDs,    \* Processor.seenIDs
    errorIDs,   \* Processor.errorIDs
    out,        \* what has been written to Processor.out, line by line
    ret,        \* what Run returned
    open,       \* names of the files whose handle is open
    nread,      \* number of data rows validated so far in the run
    last,       \* the row validateRow classified last, with its result
    occ,        \* identifiers borne by the rows validated so far
    insOcc,     \* identifiers borne by the insert-file rows validated so far
    insTwice,   \* identifiers borne by two or more of those insert-file rows
    nInsErr,    \* rows of insert files classified as errors so far
    nUpdErr,    \* rows of update files classified as errors so far
    reads,      \* records read from the file opened last, its header included
    opened,     \* names of the files opened so far
    readStop,   \* how reading the file opened last stopped: EOF or an error
    okIns,      \* identifiers borne by the insert-file rows classified ok
    minFlagged, \* identifiers reported with the minimum reason
    dupFlagged, \* identifiers reported with the duplicate reason
    origTwice,  \* identifiers reported twice with one of those two reasons
    run,        \* 1 in the first run of the process, 2 in a second run
    prevOnly100 \* whether the first run met 100 alone and flagged it

vars == <<cfg, dir, shuffled, entries, pc, idx, isInsert, isUpdate, fpr, rowNum,
          errCount, stats, seenIDs, errorIDs, out, ret, open, nread, last,
          occ, insOcc, insTwice, nInsErr, nUpdErr, reads, opened, readStop,
          okIns, minFlagged, dupFlagged, origTwice, run, prevOnly100>>

----------------------------------------------------------------------------
(* Bounds of the model.                                                    *)

\* data rows validated in one run, over all files
MaxRows == 3

----------------------------------------------------------------------------
(* Byte strings.                                                           *)

\* "INS", "UPD", "INS_1" and ""
sINS == <<73, 78, 83>>
sUPD == <<85, 80, 68>>
sINS_1 == <<73, 78, 83, 95, 49>>
\* ".csv"
sCsvExt == <<46, 99, 115, 118>>

\* file names: "INS_1.csv", "INS_10.csv", "INS_2.csv", "UPD_1.csv",
\* "OTH_1.csv", "INS_3.txt" and "INS_0.csv"
fINS_1 == <<73, 78, 83, 95, 49, 46, 99, 115, 118>>
fINS_10 == <<73, 78, 83, 95, 49, 48, 46, 99, 115, 118>>
fINS_2 == <<73, 78, 83, 95, 50, 46, 99, 115, 118>>
fUPD_1 == <<85, 80, 68, 95, 49, 46, 99, 115, 118>>
fOTH_1 == <<79, 84, 72, 95, 49, 46, 99, 115, 118>>
fINS_3txt == <<73, 78, 83, 95, 51, 46, 116, 120, 116>>
fINS_0 == <<73, 78, 83, 95, 48, 46, 99, 115, 118>>

\* identifiers: "50", "100", "ABC", "4999999999", "5000000000"
id50 == <<53, 48>>
id100 == <<49, 48, 48>>
idABC == <<65, 66, 67>>
id4999999999 == <<52, 57, 57, 57, 57, 57, 57, 57, 57, 57>>
id5000000000 == <<53, 48, 48, 48, 48, 48, 48, 48, 48, 48>>
\* "9223372036854775808", one above the largest int64
idOver ==
    <<57, 50, 50, 51, 51, 55, 50, 48, 51, 54, 56, 53, 52, 55, 55, 53, 56, 48, 56>>

\* other fields: "0", "1", "ID", "Flag"
fld0 == <<48>>
fld1 == <<49>>
fldID == <<73, 68>>
fldFlag == <<70, 108, 97, 103>>

\* Go's < on strings: byte-wise lexicographic order
RECURSIVE StrLess(_, _)
StrLess(a, b) ==
    IF b = <<>> THEN FALSE
    ELSE IF a = <<>> THEN TRUE
    ELSE IF Head(a) # Head(b) THEN Head(a) < Head(b)
    ELSE StrLess(Tail(a), Tail(b))

\* strings.HasPrefix
HasPrefix(s, prefix) ==
    /\ Len(s) >= Len(prefix)
    /\ SubSeq(s, 1, Len(prefix)) = prefix

\* filepath.Ext: the suffix from the last dot of the last path element
RECURSIVE ExtFrom(_, _)
ExtFrom(s, i) ==
    IF i = 0 \/ s[i] = 47 THEN <<>>
    ELSE IF s[i] = 46 THEN SubSeq(s, i, Len(s))
    ELSE ExtFrom(s, i - 1)

Ext(s) == ExtFrom(s, Len(s))

\* strings.Join(record, ",")
RECURSIVE Join(_)
Join(record) ==
    IF record = <<>> THEN <<>>
    ELSE IF Len(record) = 1 THEN record[1]
    ELSE record[1] \o <<44>> \o Join(Tail(record))

----------------------------------------------------------------------------
(* strconv.ParseInt(s, 10, 64) and the comparison of int64 values.         *)

RECURSIVE StripZeros(_)
StripZeros(d) ==
    IF d = <<>> THEN <<>>
    ELSE IF Head(d) = 0 THEN StripZeros(Tail(d))
    ELSE d

\* a < b for magnitudes written in decimal without leading zeros
RECURSIVE DigitsLess(_, _)
DigitsLess(a, b) ==
    IF a = <<>> THEN FALSE
    ELSE IF Head(a) # Head(b) THEN Head(a) < Head(b)
    ELSE DigitsLess(Tail(a), Tail(b))

MagLess(a, b) ==
    \/ Len(a) < Len(b)
    \/ Len(a) = Len(b) /\ DigitsLess(a, b)

\* 1 << 63 = 9223372036854775808
Cutoff64 == <<9, 2, 2, 3, 3, 7, 2, 0, 3, 6, 8, 5, 4, 7, 7, 5, 8, 0, 8>>
\* 1 << 31 = 2147483648
Cutoff32 == <<2, 1, 4, 7, 4, 8, 3, 6, 4, 8>>

IsDigit(c) == c >= 48 /\ c <= 57

ParseFail == [err |-> TRUE, neg |-> FALSE, mag |-> <<>>]

ParseIntBits(s, cutoff) ==
    IF s = <<>> THEN ParseFail
    ELSE
        LET neg == s[1] = 45
            body == IF s[1] = 43 \/ s[1] = 45 THEN Tail(s) ELSE s
        IN  IF body = <<>> \/ \E i \in 1..Len(body) : ~IsDigit(body[i])
            THEN ParseFail
            ELSE
                LET mag == StripZeros([i \in 1..Len(body) |-> body[i] - 48])
                IN  IF ~neg /\ ~MagLess(mag, cutoff) THEN ParseFail
                    ELSE IF neg /\ MagLess(cutoff, mag) THEN ParseFail
                    ELSE [err |-> FALSE, neg |-> neg /\ mag # <<>>, mag |-> mag]

ParseInt32(s) == ParseIntBits(s, Cutoff32)

ParseInt(s) == ParseIntBits(s, Cutoff64)

\* a < b on int64
IntLess(a, b) ==
    IF a.neg /\ ~b.neg THEN TRUE
    ELSE IF ~a.neg /\ b.neg THEN FALSE
    ELSE IF a.neg THEN MagLess(b.mag, a.mag)
    ELSE MagLess(a.mag, b.mag)

----------------------------------------------------------------------------
(* Configurations, directory entries and the lines of a file.              *)

\* Config.MinID values: the int64 100 and the int64 5000000000
Min100 == [err |-> FALSE, neg |-> FALSE, mag |-> <<1, 0, 0>>]
Min5000000000 ==
    [err |-> FALSE, neg |-> FALSE, mag |-> <<5, 0, 0, 0, 0, 0, 0, 0, 0, 0>>]

\* Config values (FlagColIdx is set by main and by the tests; -1 = none)
Configs ==
    { [IDColIdx |-> 0, FlagColIdx |-> 1, InsertF |-> sINS, UpdateF |-> sUPD,
       MinID |-> Min100],
      [IDColIdx |-> 0, FlagColIdx |-> 1, InsertF |-> sINS, UpdateF |-> sUPD,
       MinID |-> Min5000000000],
      [IDColIdx |-> 1, FlagColIdx |-> 0, InsertF |-> sUPD, UpdateF |-> sINS,
       MinID |-> Min100],
      [IDColIdx |-> 0, FlagColIdx |-> -1, InsertF |-> sINS, UpdateF |-> sINS_1,
       MinID |-> Min100] }

\* fs.DirEntry: Name() and IsDir()
Universe ==
    { [name |-> fINS_1, isDir |-> FALSE],
      [name |-> fINS_10, isDir |-> FALSE],
      [name |-> fINS_2, isDir |-> FALSE],
      [name |-> fUPD_1, isDir |-> FALSE],
      [name |-> fOTH_1, isDir |-> FALSE],
      [name |-> fINS_3txt, isDir |-> FALSE],
      [name |-> fINS_0, isDir |-> TRUE] }

\* the directories of the model: three insert files whose byte order is
\* not their numeric order, and a directory holding one entry of each kind
Dirs ==
    { {e \in Universe : e.name \in {fINS_1, fINS_10, fINS_2}},
      {e \in Universe : e.name \notin {fINS_10, fINS_2}} }

IDs == {id50, id100, idABC, id4999999999, id5000000000, idOver}

\* a line is modelled as the texts of its unquoted fields; BadLine is the
\* text of a line holding a lone double quote
BadLine == << <<34>> >>

\* the lines a file may hold as its first line
HeaderLines == { <<fldID, fldFlag>>, <<fldID>>, <<id100, fld1>>, BadLine }

\* the lines a file may hold after its first line
Lines ==
    {<<id, fld1>> : id \in IDs} \cup { <<id100, fld0>>, <<id100>>, BadLine }

\* csv.Reader.Read on one line: a quote inside an unquoted field is
\* ErrBareQuote; with FieldsPerRecord = 0 the first record fixes the number
\* of fields and a later record of another length is ErrFieldCount
csvRead(line, fieldsPerRecord) ==
    IF \E i \in 1..Len(line) : \E j \in 1..Len(line[i]) : line[i][j] = 34
    THEN [err |-> "parse error", record |-> <<>>]
    ELSE IF fieldsPerRecord > 0 /\ Len(line) # fieldsPerRecord
    THEN [err |-> "wrong number of fields", record |-> line]
    ELSE [err |-> "", record |-> line]

----------------------------------------------------------------------------
(* Processor.validateRow and Processor.markError.                          *)

\* markError that records nothing
markErrorNoop(errs, id) == errs

markError(errs, id) == errs \cup {id}

CheckOk(seen, errs) ==
    [IsError |-> FALSE, Message |-> "", seenIDs |-> seen, errorIDs |-> errs]

CheckErr(msg, seen, errs) ==
    [IsError |-> TRUE, Message |-> msg, seenIDs |-> seen, errorIDs |-> errs]

\* insertRules without line 197: an accepted identifier is not recorded
insertRulesNoRecord(idStr, seen, errs, c) ==
    IF idStr \in seen
    THEN CheckErr("ERR_DUP_INSERT", seen, markError(errs, idStr))
    ELSE
        LET idInt == ParseInt(idStr)
        IN  IF ~idInt.err /\ IntLess(idInt, c.MinID)
            THEN CheckErr("ERR_MIN", seen, markError(errs, idStr))
            ELSE CheckOk(seen, errs)

\* insertRules without line 190: a minimum violation is not marked
insertRulesMinNoMark(idStr, seen, errs, c) ==
    IF idStr \in seen
    THEN CheckErr("ERR_DUP_INSERT", seen, markError(errs, idStr))
    ELSE
        LET idInt == ParseInt(idStr)
        IN  IF ~idInt.err /\ IntLess(idInt, c.MinID)
            THEN CheckErr("ERR_MIN", seen, errs)
            ELSE CheckOk(seen \cup {idStr}, errs)

\* insertRules with an identifier that does not parse taken as a violation
insertRulesParseErrIsMin(idStr, seen, errs, c) ==
    IF idStr \in seen
    THEN CheckErr("ERR_DUP_INSERT", seen, markError(errs, idStr))
    ELSE
        LET idInt == ParseInt(idStr)
        IN  IF idInt.err \/ IntLess(idInt, c.MinID)
            THEN CheckErr("ERR_MIN", seen, markError(errs, idStr))
            ELSE CheckOk(seen \cup {idStr}, errs)

\* insertRules recording the identifier before the minimum check
insertRulesRecordFirst(idStr, seen, errs, c) ==
    IF idStr \in seen
    THEN CheckErr("ERR_DUP_INSERT", seen, markError(errs, idStr))
    ELSE
        LET idInt == ParseInt(idStr)
        IN  IF ~idInt.err /\ IntLess(idInt, c.MinID)
            THEN CheckErr("ERR_MIN", seen \cup {idStr},
                          markError(errs, idStr))
            ELSE CheckOk(seen \cup {idStr}, errs)

\* lines 176-197: the rules of an insert file, duplicate before minimum
insertRules(idStr, seen, errs, c) ==
    IF idStr \in seen
    THEN CheckErr("ERR_DUP_INSERT", seen, markError(errs, idStr))
    ELSE
        LET idInt == ParseInt(idStr)
        IN  IF ~idInt.err /\ IntLess(idInt, c.MinID)
            THEN CheckErr("ERR_MIN", seen, markError(errs, idStr))
            ELSE CheckOk(seen \cup {idStr}, errs)

\* validateRow without lines 171-174: no check of the errored identifiers
validateRowNoRepeat(record, ins, seen, errs, c) ==
    IF Len(record) <= c.IDColIdx
    THEN CheckOk(seen, errs)
    ELSE
        LET idStr == record[c.IDColIdx + 1]
        IN  IF ins
            THEN insertRules(idStr, seen, errs, c)
            ELSE CheckOk(seen, errs)

\* validateRow with the insert rules applied to the rows of update files too
validateRowUpdateChecked(record, ins, seen, errs, c) ==
    IF Len(record) <= c.IDColIdx
    THEN CheckOk(seen, errs)
    ELSE
        LET idStr == record[c.IDColIdx + 1]
        IN  IF idStr \in errs
            THEN CheckErr("ERR_REPEAT", seen, errs)
            ELSE insertRules(idStr, seen, errs, c)

validateRow(record, ins, seen, errs, c) ==
    IF Len(record) <= c.IDColIdx
    THEN CheckOk(seen, errs)
    ELSE
        LET idStr == record[c.IDColIdx + 1]
        IN  IF idStr \in errs
            THEN CheckErr("ERR_REPEAT", seen, errs)
            ELSE IF ins
            THEN insertRules(idStr, seen, errs, c)
            ELSE CheckOk(seen, errs)

----------------------------------------------------------------------------
(* Processor.Run: listing and sorting.                                     *)

\* a comparison that puts the shorter name first (INS_2 before INS_10)
LessShortFirst(a, b) ==
    \/ Len(a.name) < Len(b.name)
    \/ Len(a.name) = Len(b.name) /\ StrLess(a.name, b.name)

\* the comparison of sort.Slice, line 73
Less(a, b) == StrLess(a.name, b.name)

RECURSIVE Insert(_, _)
Insert(e, s) ==
    IF s = <<>> THEN <<e>>
    ELSE IF Less(e, Head(s)) THEN <<e>> \o s
    ELSE <<Head(s)>> \o Insert(e, Tail(s))

RECURSIVE SortEntries(_)
SortEntries(s) ==
    IF s = <<>> THEN <<>>
    ELSE Insert(Head(s), SortEntries(Tail(s)))

\* the orders in which ReadDir may return the entries of d
Listings(d) ==
    {s \in [1..Cardinality(d) -> d] :
        \A i, j \in 1..Cardinality(d) : i # j => s[i] # s[j]}

NoErr == [msg |-> "", file |-> <<>>, line |-> 0, cause |-> ""]

NoStop == [err |-> "", nfields |-> 0]

NoRow ==
    [file |-> <<>>, row |-> 0, record |-> <<>>, isInsert |-> FALSE,
     hasID |-> FALSE, id |-> <<>>, IsError |-> FALSE, Message |-> "",
     preErr |-> FALSE, preSeen |-> FALSE, preOcc |-> FALSE,
     preInsOcc |-> FALSE]

\* a diagnostic whose row number does not count the header
DiagLineZeroBased(filename, n, msg, content) ==
    [kind |-> "diag", file |-> filename, row |-> n - 1, msg |-> msg,
     content |-> content, ins |-> 0, upd |-> 0]

\* fmt.Fprintf(p.out, "%s(%d) - %s : %s\n", ...), line 153
DiagLine(filename, n, msg, content) ==
    [kind |-> "diag", file |-> filename, row |-> n, msg |-> msg,
     content |-> content, ins |-> 0, upd |-> 0]

\* the summary line, line 108
SummaryLine(st) ==
    [kind |-> "summary", file |-> <<>>, row |-> 0, msg |-> "",
     content |-> <<>>, ins |-> st.InsertErrors, upd |-> st.UpdateErrors]

\* the configurations a directory is run with.  In the directory of three
\* insert files every name starts with INS, so the prefixes INS and UPD
\* classify it as the prefixes INS and INS_1 do: it is run with the latter
\* and with the exchanged prefixes, both with the minimum 100.  The
\* directory of five entries is run with every configuration.
Setup(c, d) ==
    Cardinality(d) = 3 => c.UpdateF = sINS_1 \/ c.InsertF = sUPD

Init ==
    /\ cfg \in Configs
    /\ dir \in Dirs
    /\ Setup(cfg, dir)
    /\ shuffled = FALSE
    /\ entries = <<>>
    /\ pc = "start"
    /\ idx = 0
    /\ isInsert = FALSE
    /\ isUpdate = FALSE
    /\ fpr = 0
    /\ rowNum = 0
    /\ errCount = 0
    /\ stats = [InsertErrors |-> 0, UpdateErrors |-> 0]
    /\ seenIDs = {}
    /\ errorIDs = {}
    /\ out = <<>>
    /\ ret = [returned |-> FALSE, stats |-> <<>>, err |-> NoErr]
    /\ open = {}
    /\ nread = 0
    /\ last = NoRow
    /\ occ = {}
    /\ insOcc = {}
    /\ insTwice = {}
    /\ nInsErr = 0
    /\ nUpdErr = 0
    /\ reads = 0
    /\ opened = {}
    /\ readStop = NoStop
    /\ okIns = {}
    /\ minFlagged = {}
    /\ dupFlagged = {}
    /\ origTwice = {}
    /\ run = 1
    /\ prevOnly100 = FALSE

\* a return of the statistics gathered so far together with the error
AbortWithStats(e) ==
    /\ pc' = "failed"
    /\ ret' = [returned |-> TRUE, stats |-> <<stats>>, err |-> e]

\* return nil, err
Abort(e) ==
    /\ pc' = "failed"
    /\ ret' = [returned |-> TRUE, stats |-> <<>>, err |-> e]

\* lines 66-69: ReadDir fails
ReadDirFail ==
    /\ pc = "start"
    /\ Abort([NoErr EXCEPT !.msg = "failed to read dir", !.cause = "readdir"])
    /\ UNCHANGED <<cfg, dir, shuffled, entries, idx, isInsert, isUpdate, fpr,
                   rowNum, errCount, stats, seenIDs, errorIDs, out, open,
                   nread, last, occ, insOcc, insTwice, nInsErr, nUpdErr,
                   reads, opened, readStop, okIns, minFlagged,
                   dupFlagged, origTwice, run, prevOnly100>>

\* lines 66-76: ReadDir returns the entries in some order; they are sorted
ReadDirOk ==
    /\ pc = "start"
    /\ \E l \in Listings(dir) :
        /\ shuffled' = \E i \in 1..(Len(l) - 1) :
                            ~StrLess(l[i].name, l[i + 1].name)
        /\ entries' = SortEntries(l)
    /\ idx' = 1
    /\ pc' = "loop"
    /\ UNCHANGED <<cfg, dir, isInsert, isUpdate, fpr, rowNum, errCount,
                   stats, seenIDs, errorIDs, out, ret, open, nread, last,
                   occ, insOcc, insTwice, nInsErr, nUpdErr, reads, opened,
                   readStop, okIns, minFlagged, dupFlagged,
                   origTwice, run, prevOnly100>>

\* every regular .csv file taken, whatever its prefix
EligibleAnyCsv(e, c) ==
    /\ ~e.isDir
    /\ Ext(e.name) = sCsvExt

Eligible(e, c) ==
    /\ ~e.isDir
    /\ Ext(e.name) = sCsvExt
    /\ HasPrefix(e.name, c.InsertF) \/ HasPrefix(e.name, c.UpdateF)

\* lines 79-93: a directory, another extension, or neither prefix
SkipEntry ==
    /\ pc = "loop"
    /\ idx <= Len(entries)
    /\ ~Eligible(entries[idx], cfg)
    /\ idx' = idx + 1
    /\ UNCHANGED <<cfg, dir, shuffled, entries, pc, isInsert, isUpdate, fpr,
                   rowNum, errCount, stats, seenIDs, errorIDs, out, ret,
                   open, nread, last, occ, insOcc, insTwice, nInsErr,
                   nUpdErr, reads, opened, readStop, okIns,
                   minFlagged, dupFlagged, origTwice, run, prevOnly100>>

CurName == entries[idx].name

\* lines 116-119 and 96-98: Open fails, Run returns nil and the error
OpenFail ==
    /\ pc = "loop"
    /\ idx <= Len(entries)
    /\ Eligible(entries[idx], cfg)
    /\ Abort([NoErr EXCEPT !.msg = "failed to process file",
                           !.file = CurName, !.cause = "open"])
    /\ isInsert' = HasPrefix(CurName, cfg.InsertF)
    /\ isUpdate' = HasPrefix(CurName, cfg.UpdateF)
    /\ UNCHANGED <<cfg, dir, shuffled, entries, idx, fpr, rowNum, errCount,
                   stats, seenIDs, errorIDs, out, open, nread, last, occ,
                   insOcc, insTwice, nInsErr, nUpdErr, reads, opened,
                   readStop, okIns, minFlagged, dupFlagged,
                   origTwice, run, prevOnly100>>

\* a file with both prefixes taken as an update file
OpenOkUpdateWins ==
    /\ pc = "loop"
    /\ idx <= Len(entries)
    /\ Eligible(entries[idx], cfg)
    /\ isInsert' = (/\ HasPrefix(CurName, cfg.InsertF)
                    /\ ~HasPrefix(CurName, cfg.UpdateF))
    /\ isUpdate' = HasPrefix(CurName, cfg.UpdateF)
    /\ open' = open \cup {CurName}
    /\ opened' = opened \cup {CurName}
    /\ readStop' = NoStop
    /\ reads' = 0
    /\ fpr' = 0
    /\ pc' = "header"
    /\ UNCHANGED <<cfg, dir, shuffled, entries, idx, rowNum, errCount, stats,
                   seenIDs, errorIDs, out, ret, nread, last, occ, insOcc,
                   insTwice, nInsErr, nUpdErr, okIns, minFlagged, dupFlagged,
                   origTwice, run, prevOnly100>>

\* lines 87-95 and 115-122: the file is classified and opened
OpenOk ==
    /\ pc = "loop"
    /\ idx <= Len(entries)
    /\ Eligible(entries[idx], cfg)
    /\ isInsert' = HasPrefix(CurName, cfg.InsertF)
    /\ isUpdate' = HasPrefix(CurName, cfg.UpdateF)
    /\ open' = open \cup {CurName}
    /\ opened' = opened \cup {CurName}
    /\ readStop' = NoStop
    /\ reads' = 0
    /\ fpr' = 0
    /\ pc' = "header"
    /\ UNCHANGED <<cfg, dir, shuffled, entries, idx, rowNum, errCount, stats,
                   seenIDs, errorIDs, out, ret, nread, last, occ, insOcc,
                   insTwice, nInsErr, nUpdErr, okIns, minFlagged, dupFlagged,
                   origTwice, run, prevOnly100>>

\* every file's count added to the insert total, whatever its class
AddStatsAllInsert(st, ins, n) ==
    [st EXCEPT !.InsertErrors = st.InsertErrors + n]

\* lines 100-104: the file's count is added to the total of its class
AddStats(st, ins, n) ==
    IF ins
    THEN [st EXCEPT !.InsertErrors = st.InsertErrors + n]
    ELSE [st EXCEPT !.UpdateErrors = st.UpdateErrors + n]

\* the end of file at the first Read taken as a failure to read the header
HeaderEOFFails ==
    /\ pc = "header"
    /\ open' = open \ {CurName}
    /\ readStop' = [err |-> "EOF", nfields |-> 0]
    /\ Abort([NoErr EXCEPT !.msg = "failed to process file",
                           !.file = CurName,
                           !.cause = "failed to read header"])
    /\ UNCHANGED <<cfg, dir, shuffled, entries, idx, isInsert, isUpdate, fpr,
                   rowNum, errCount, stats, seenIDs, errorIDs, out, nread,
                   last, occ, insOcc, insTwice, nInsErr, nUpdErr, reads,
                   opened, okIns, minFlagged, dupFlagged, origTwice, run,
                   prevOnly100>>

\* lines 125-129: no row at all; processFile returns 0, nil
HeaderEOF ==
    /\ pc = "header"
    /\ open' = open \ {CurName}
    /\ stats' = AddStats(stats, isInsert, 0)
    /\ readStop' = [err |-> "EOF", nfields |-> 0]
    /\ idx' = idx + 1
    /\ pc' = "loop"
    /\ UNCHANGED <<cfg, dir, shuffled, entries, isInsert, isUpdate, fpr,
                   rowNum, errCount, seenIDs, errorIDs, out, ret, nread,
                   last, occ, insOcc, insTwice, nInsErr, nUpdErr, reads,
                   opened, okIns, minFlagged, dupFlagged, origTwice, run,
                   prevOnly100>>

\* lines 125-131: the first Read fails
HeaderErr ==
    /\ pc = "header"
    /\ \E line \in HeaderLines :
        /\ csvRead(line, 0).err # ""
        /\ readStop' = [err |-> csvRead(line, 0).err, nfields |-> Len(line)]
    /\ open' = open \ {CurName}
    /\ Abort([NoErr EXCEPT !.msg = "failed to process file",
                           !.file = CurName,
                           !.cause = "failed to read header"])
    /\ UNCHANGED <<cfg, dir, shuffled, entries, idx, isInsert, isUpdate, fpr,
                   rowNum, errCount, stats, seenIDs, errorIDs, out, nread,
                   last, occ, insOcc, insTwice, nInsErr, nUpdErr, reads,
                   opened, okIns, minFlagged, dupFlagged, origTwice, run,
                   prevOnly100>>

\* lines 125-134: the first row is read and dropped
HeaderOk ==
    /\ pc = "header"
    /\ \E line \in HeaderLines :
        /\ csvRead(line, 0).err = ""
        /\ fpr' = Len(csvRead(line, 0).record)
    /\ rowNum' = 1
    /\ errCount' = 0
    /\ reads' = 1
    /\ pc' = "rows"
    /\ UNCHANGED <<cfg, dir, shuffled, entries, idx, isInsert, isUpdate,
                   stats, seenIDs, errorIDs, out, ret, open, nread, last,
                   occ, insOcc, insTwice, nInsErr, nUpdErr, opened,
                   readStop, okIns, minFlagged, dupFlagged, origTwice, run,
                   prevOnly100>>

\* lines 137-140, 157 and 100-104: end of file
RowEOF ==
    /\ pc = "rows"
    /\ open' = open \ {CurName}
    /\ stats' = AddStats(stats, isInsert, errCount)
    /\ readStop' = [err |-> "EOF", nfields |-> 0]
    /\ idx' = idx + 1
    /\ pc' = "loop"
    /\ UNCHANGED <<cfg, dir, shuffled, entries, isInsert, isUpdate, fpr,
                   rowNum, errCount, seenIDs, errorIDs, out, ret, nread,
                   last, occ, insOcc, insTwice, nInsErr, nUpdErr, reads,
                   opened, okIns, minFlagged, dupFlagged, origTwice, run,
                   prevOnly100>>

\* a row that cannot be decoded ends the run with the file left open
RowErrLeaks ==
    /\ pc = "rows"
    /\ \E line \in Lines :
        /\ csvRead(line, fpr).err # ""
        /\ readStop' = [err |-> csvRead(line, fpr).err,
                        nfields |-> Len(line)]
    /\ Abort([NoErr EXCEPT !.msg = "failed to process file",
                           !.file = CurName, !.line = rowNum + 1,
                           !.cause = "csv read error"])
    /\ UNCHANGED <<cfg, dir, shuffled, entries, idx, isInsert, isUpdate, fpr,
                   rowNum, errCount, stats, seenIDs, errorIDs, out, open,
                   nread, last, occ, insOcc, insTwice, nInsErr, nUpdErr,
                   reads, opened, okIns, minFlagged, dupFlagged, origTwice,
                   run, prevOnly100>>

\* lines 141-143 and 96-98: a row cannot be decoded
RowErr ==
    /\ pc = "rows"
    /\ \E line \in Lines :
        /\ csvRead(line, fpr).err # ""
        /\ readStop' = [err |-> csvRead(line, fpr).err,
                        nfields |-> Len(line)]
    /\ open' = open \ {CurName}
    /\ Abort([NoErr EXCEPT !.msg = "failed to process file",
                           !.file = CurName, !.line = rowNum + 1,
                           !.cause = "csv read error"])
    /\ UNCHANGED <<cfg, dir, shuffled, entries, idx, isInsert, isUpdate, fpr,
                   rowNum, errCount, stats, seenIDs, errorIDs, out, nread,
                   last, occ, insOcc, insTwice, nInsErr, nUpdErr, reads,
                   opened, okIns, minFlagged, dupFlagged, origTwice, run,
                   prevOnly100>>

\* diagnostics put in front of the earlier ones
WriteDiagInFront(o, filename, n, res, record) ==
    IF res.IsError
    THEN <<DiagLine(filename, n, res.Message, Join(record))>> \o o
    ELSE o

\* the diagnostic of lines 149-154, appended when the row is an error
WriteDiag(o, filename, n, res, record) ==
    IF res.IsError
    THEN Append(o, DiagLine(filename, n, res.Message, Join(record)))
    ELSE o

\* lines 137-154: one data row is read, validated and reported
RowOk ==
    /\ pc = "rows"
    /\ nread < MaxRows
    /\ \E line \in Lines :
        /\ csvRead(line, fpr).err = ""
        /\ LET record == csvRead(line, fpr).record
               res == validateRow(record, isInsert, seenIDs, errorIDs, cfg)
               hasID == Len(record) > cfg.IDColIdx
               id == IF hasID THEN record[cfg.IDColIdx + 1] ELSE <<>>
           IN  /\ rowNum' = rowNum + 1
               /\ seenIDs' = res.seenIDs
               /\ errorIDs' = res.errorIDs
               /\ errCount' = IF res.IsError THEN errCount + 1 ELSE errCount
               /\ out' = WriteDiag(out, CurName, rowNum + 1, res, record)
               /\ last' = [file |-> CurName, row |-> rowNum + 1,
                           record |-> record, isInsert |-> isInsert,
                           hasID |-> hasID, id |-> id,
                           IsError |-> res.IsError, Message |-> res.Message,
                           preErr |-> hasID /\ id \in errorIDs,
                           preSeen |-> hasID /\ id \in seenIDs,
                           preOcc |-> hasID /\ id \in occ,
                           preInsOcc |-> hasID /\ id \in insOcc]
               /\ occ' = IF hasID THEN occ \cup {id} ELSE occ
               /\ insOcc' = IF hasID /\ isInsert THEN insOcc \cup {id}
                            ELSE insOcc
               /\ insTwice' = IF hasID /\ isInsert /\ id \in insOcc
                              THEN insTwice \cup {id}
                              ELSE insTwice
               /\ nInsErr' = IF res.IsError /\ isInsert THEN nInsErr + 1
                             ELSE nInsErr
               /\ nUpdErr' = IF res.IsError /\ ~isInsert THEN nUpdErr + 1
                             ELSE nUpdErr
               /\ okIns' = IF hasID /\ isInsert /\ ~res.IsError
                           THEN okIns \cup {id}
                           ELSE okIns
               /\ minFlagged' = IF res.Message = "ERR_MIN"
                                THEN minFlagged \cup {id}
                                ELSE minFlagged
               /\ dupFlagged' = IF res.Message = "ERR_DUP_INSERT"
                                THEN dupFlagged \cup {id}
                                ELSE dupFlagged
               /\ origTwice' =
                     IF /\ res.Message \in {"ERR_MIN", "ERR_DUP_INSERT"}
                        /\ id \in minFlagged \cup dupFlagged
                     THEN origTwice \cup {id}
                     ELSE origTwice
    /\ nread' = nread + 1
    /\ reads' = reads + 1
    /\ UNCHANGED <<cfg, dir, shuffled, entries, pc, idx, isInsert, isUpdate,
                   fpr, stats, ret, open, opened, readStop, run,
                   prevOnly100>>

\* lines 107-110: the summary is written and the statistics are returned
Finish ==
    /\ pc = "loop"
    /\ idx > Len(entries)
    /\ out' = Append(out, SummaryLine(stats))
    /\ ret' = [returned |-> TRUE, stats |-> <<stats>>, err |-> NoErr]
    /\ pc' = "done"
    /\ UNCHANGED <<cfg, dir, shuffled, entries, idx, isInsert, isUpdate, fpr,
                   rowNum, errCount, stats, seenIDs, errorIDs, open, nread,
                   last, occ, insOcc, insTwice, nInsErr, nUpdErr, reads,
                   opened, readStop, okIns, minFlagged, dupFlagged,
                   origTwice, run, prevOnly100>>

Next ==
    \/ ReadDirFail
    \/ ReadDirOk
    \/ SkipEntry
    \/ OpenFail
    \/ OpenOk
    \/ HeaderEOF
    \/ HeaderErr
    \/ HeaderOk
    \/ RowEOF
    \/ RowErr
    \/ RowOk
    \/ Finish

Spec == Init /\ [][Next]_vars

----------------------------------------------------------------------------
(* A second run of the same process: another Processor is built with       *)
(* NewProcessor and its Run is called, as the loops of the tests do.       *)

\* lines 59-60: the two maps a new Processor starts with
NewProcessor == [seenIDs |-> {}, errorIDs |-> {}]

\* a second Processor that is handed the maps of the first
NewRunKeepsSets ==
    /\ run = 1
    /\ pc \in {"done", "failed"}
    /\ run' = 2
    /\ prevOnly100' = (occ = {id100} /\ id100 \in errorIDs)
    /\ dir' \in Dirs
    /\ shuffled' = FALSE
    /\ entries' = <<>>
    /\ pc' = "start"
    /\ idx' = 0
    /\ isInsert' = FALSE
    /\ isUpdate' = FALSE
    /\ fpr' = 0
    /\ rowNum' = 0
    /\ errCount' = 0
    /\ stats' = [InsertErrors |-> 0, UpdateErrors |-> 0]
    /\ out' = <<>>
    /\ ret' = [returned |-> FALSE, stats |-> <<>>, err |-> NoErr]
    /\ open' = {}
    /\ nread' = 0
    /\ last' = NoRow
    /\ occ' = {}
    /\ insOcc' = {}
    /\ insTwice' = {}
    /\ nInsErr' = 0
    /\ nUpdErr' = 0
    /\ reads' = 0
    /\ opened' = {}
    /\ readStop' = NoStop
    /\ okIns' = {}
    /\ minFlagged' = {}
    /\ dupFlagged' = {}
    /\ origTwice' = {}
    /\ UNCHANGED <<cfg, seenIDs, errorIDs>>

\* the first run has returned; the test builds the Processor of the next
\* case over another directory and another output buffer
NewRun ==
    /\ run = 1
    /\ pc \in {"done", "failed"}
    /\ run' = 2
    /\ prevOnly100' = (occ = {id100} /\ id100 \in errorIDs)
    /\ dir' \in Dirs
    /\ seenIDs' = NewProcessor.seenIDs
    /\ errorIDs' = NewProcessor.errorIDs
    /\ shuffled' = FALSE
    /\ entries' = <<>>
    /\ pc' = "start"
    /\ idx' = 0
    /\ isInsert' = FALSE
    /\ isUpdate' = FALSE
    /\ fpr' = 0
    /\ rowNum' = 0
    /\ errCount' = 0
    /\ stats' = [InsertErrors |-> 0, UpdateErrors |-> 0]
    /\ out' = <<>>
    /\ ret' = [returned |-> FALSE, stats |-> <<>>, err |-> NoErr]
    /\ open' = {}
    /\ nread' = 0
    /\ last' = NoRow
    /\ occ' = {}
    /\ insOcc' = {}
    /\ insTwice' = {}
    /\ nInsErr' = 0
    /\ nUpdErr' = 0
    /\ reads' = 0
    /\ opened' = {}
    /\ readStop' = NoStop
    /\ okIns' = {}
    /\ minFlagged' = {}
    /\ dupFlagged' = {}
    /\ origTwice' = {}
    /\ UNCHANGED cfg

\* the two runs are made with the configuration of most test cases
InitTwoRuns ==
    /\ Init
    /\ cfg = [IDColIdx |-> 0, FlagColIdx |-> 1, InsertF |-> sINS,
              UpdateF |-> sUPD, MinID |-> Min100]

NextTwoRuns ==
    \/ Next
    \/ NewRun

SpecTwoRuns == InitTwoRuns /\ [][NextTwoRuns]_vars

----------------------------------------------------------------------------
(* Reference values for the properties, written out by hand.               *)

\* the identifiers of the model that are integers below 100
Under100 == {id50, fld0, fld1}

\* the identifiers of the model that are integers below 5000000000
Under5000000000 == {id50, id100, id4999999999, fld0, fld1}

\* the identifiers of the model that are no 64-bit signed integer
NotInt64 == {idABC, idOver}

\* id is an integer below the configured minimum
BelowMin(id) ==
    \/ cfg.MinID = Min100 /\ id \in Under100
    \/ cfg.MinID = Min5000000000 /\ id \in Under5000000000

\* id is an integer at or above the configured minimum
AtLeastMin(id) == id \notin NotInt64 /\ ~BelowMin(id)

\* a row has just been validated and it bears an identifier
Classified == last.row > 0 /\ last.hasID

\* this step validates a row
ValidatesRow == nread' = nread + 1

----------------------------------------------------------------------------
(* C1: an identifier never leaves errorIDs, and every row validated while  *)
(* its identifier is in errorIDs, in an insert or an update file, is an    *)
(* error with the repeat reason.                                           *)
C1_ErroredStaysAndRepeats ==
    [][ /\ errorIDs \subseteq errorIDs'
        /\ (ValidatesRow /\ last'.hasID /\ last'.id \in errorIDs)
             => (last'.IsError /\ last'.Message = "ERR_REPEAT") ]_vars

\* C1: an update row bears an identifier the minimum check flagged in an
\* insert file and is reported with the repeat reason
C1_Witness ==
    /\ Classified
    /\ ~last.isInsert
    /\ last.id \in errorIDs
    /\ last.preErr
    /\ BelowMin(last.id)
    /\ last.Message = "ERR_REPEAT"

----------------------------------------------------------------------------
(* C2, as stated: the first occurrence in the run of an identifier at or   *)
(* above the minimum, in an insert file, is ok, and every occurrence after *)
(* an insert occurrence, in an insert or an update file, is an error.      *)
C2_Original ==
    (Classified /\ AtLeastMin(last.id)) =>
        /\ (last.isInsert /\ ~last.preOcc) => ~last.IsError
        /\ last.preInsOcc => last.IsError

(* C2, amended: for an identifier at or above the minimum, its first       *)
(* occurrence in an insert file is ok, every later occurrence in an insert *)
(* file is an error, and an occurrence in an update file is an error       *)
(* exactly when two insert rows bore the identifier before it.             *)
C2_Amended ==
    (Classified /\ AtLeastMin(last.id)) =>
        /\ (last.isInsert /\ ~last.preInsOcc) => ~last.IsError
        /\ (last.isInsert /\ last.preInsOcc) => last.IsError
        /\ (~last.isInsert /\ last.id \in insTwice) => last.IsError
        /\ (~last.isInsert /\ last.id \notin insTwice) => ~last.IsError

\* C2: an update row bears an identifier one insert row accepted; it is ok
C2_Witness ==
    /\ Classified
    /\ AtLeastMin(last.id)
    /\ ~last.isInsert
    /\ last.preInsOcc
    /\ last.id \notin insTwice
    /\ ~last.IsError

----------------------------------------------------------------------------
(* C3, as stated: an insert row whose identifier is below the minimum and  *)
(* already appeared in an insert file is reported with the duplicate       *)
(* reason.                                                                 *)
C3_Original ==
    (Classified /\ last.isInsert /\ last.preInsOcc /\ BelowMin(last.id)) =>
        (last.IsError /\ last.Message = "ERR_DUP_INSERT")

(* C3, amended: such a row is reported with the repeat reason, never with  *)
(* the minimum reason nor with the duplicate reason; the duplicate reason  *)
(* is given only to an insert row whose identifier is in seenIDs and not   *)
(* in errorIDs, and no identifier of seenIDs is below the minimum.         *)
C3_Amended ==
    /\ (Classified /\ last.isInsert /\ last.preInsOcc /\ BelowMin(last.id))
         => (last.IsError /\ last.Message = "ERR_REPEAT")
    /\ (Classified /\ last.Message = "ERR_DUP_INSERT")
         => (last.isInsert /\ last.preSeen /\ ~last.preErr)
    /\ \A id \in seenIDs : ~BelowMin(id)

\* C3: the second insert row of an identifier below the minimum
C3_Witness ==
    /\ Classified
    /\ last.isInsert
    /\ last.preInsOcc
    /\ last.preErr
    /\ BelowMin(last.id)
    /\ last.Message = "ERR_REPEAT"

----------------------------------------------------------------------------
(* C4: an insert row whose flag column holds "0", and whose identifier is  *)
(* not yet in errorIDs, is an error with the duplicate reason and its      *)
(* identifier is flagged.                                                  *)
C4_FlagZeroIsError ==
    ( /\ Classified
      /\ last.isInsert
      /\ ~last.preErr
      /\ cfg.FlagColIdx >= 0
      /\ Len(last.record) > cfg.FlagColIdx
      /\ last.record[cfg.FlagColIdx + 1] = fld0 )
    => ( /\ last.IsError
         /\ last.Message = "ERR_DUP_INSERT"
         /\ last.id \in errorIDs )

----------------------------------------------------------------------------
(* C5: a step that validates a row of an update file leaves seenIDs and    *)
(* errorIDs as they are; if no insert row bore the row's identifier the    *)
(* row is ok, nothing is written and the file's error count stays; and at  *)
(* the end of an update file the insert total is unchanged and the update  *)
(* total grows by the file's error count.  Every identifier of errorIDs    *)
(* was borne by an insert row.                                             *)
C5_UpdateRowsDoNotMutate ==
    [][ /\ (ValidatesRow /\ ~isInsert) =>
              /\ seenIDs' = seenIDs
              /\ errorIDs' = errorIDs
              /\ (last'.hasID /\ last'.id \notin insOcc) =>
                    /\ ~last'.IsError
                    /\ out' = out
                    /\ errCount' = errCount
        /\ (pc = "rows" /\ pc' = "loop" /\ ~isInsert) =>
              /\ stats'.InsertErrors = stats.InsertErrors
              /\ stats'.UpdateErrors = stats.UpdateErrors + errCount
        /\ errorIDs' \subseteq insOcc' ]_vars

\* C5: an update file is processed after identifiers were flagged, it held
\* only identifiers no insert row bore, and both totals are as before it
C5_Witness ==
    /\ pc = "loop"
    /\ Classified
    /\ ~last.isInsert
    /\ ~last.preInsOcc
    /\ ~last.IsError
    /\ last.row = 3
    /\ errCount = 0
    /\ errorIDs # {}
    /\ stats.InsertErrors > 0
    /\ stats.UpdateErrors = 0

----------------------------------------------------------------------------
(* C6: whatever order the listing had, the entries are processed in        *)
(* ascending byte order of their names (INS_1.csv, INS_10.csv, INS_2.csv), *)
(* so the order is fixed by the set of entries; the diagnostics follow     *)
(* that order.                                                             *)
EntryNames == [i \in 1..Len(entries) |-> entries[i].name]

C6_ByteOrder ==
    (pc # "start" /\ ret.err.cause # "readdir") =>
        /\ Len(entries) = Cardinality(dir)
        /\ {entries[i] : i \in 1..Len(entries)} = dir
        /\ \A i \in 1..(Len(entries) - 1) :
              StrLess(entries[i].name, entries[i + 1].name)
        /\ (\E e \in dir : e.name = fINS_10) =>
              EntryNames = <<fINS_1, fINS_10, fINS_2>>
        /\ (\E e \in dir : e.name = fUPD_1) =>
              EntryNames = <<fINS_0, fINS_1, fINS_3txt, fOTH_1, fUPD_1>>
        /\ \A i, j \in 1..Len(out) :
              (i < j /\ out[j].kind = "diag") =>
                  ~StrLess(out[j].file, out[i].file)

\* C6: the listing was out of order; 100 is accepted in INS_1.csv, is a
\* duplicate in INS_10.csv and a repeat in INS_2.csv
C6_Witness ==
    /\ pc = "done"
    /\ shuffled
    /\ Len(out) = 3
    /\ out[1] = DiagLine(fINS_10, 2, "ERR_DUP_INSERT", Join(<<id100, fld1>>))
    /\ out[2] = DiagLine(fINS_2, 2, "ERR_REPEAT", Join(<<id100, fld1>>))
    /\ stats = [InsertErrors |-> 2, UpdateErrors |-> 0]

----------------------------------------------------------------------------
(* C7: an insert row whose identifier is a 64-bit integer and is in        *)
(* neither set: below the minimum it is an error with the minimum reason,  *)
(* enters errorIDs and not seenIDs; at or above the minimum it is ok and   *)
(* enters seenIDs.                                                         *)
C7_MinimumCheck ==
    ( /\ Classified
      /\ last.isInsert
      /\ ~last.preErr
      /\ ~last.preSeen
      /\ last.id \notin NotInt64 )
    => IF BelowMin(last.id)
       THEN /\ last.IsError
            /\ last.Message = "ERR_MIN"
            /\ last.id \in errorIDs
            /\ last.id \notin seenIDs
       ELSE /\ ~last.IsError
            /\ last.id \in seenIDs
            /\ last.id \notin errorIDs

\* C7: with the minimum 5000000000, 5000000000 was accepted and 4999999999
\* is reported with the minimum reason
C7_Witness ==
    /\ Classified
    /\ last.isInsert
    /\ cfg.MinID = Min5000000000
    /\ last.id = id4999999999
    /\ last.Message = "ERR_MIN"
    /\ id4999999999 \in errorIDs
    /\ seenIDs = {id5000000000}

----------------------------------------------------------------------------
(* C8: an insert row whose identifier is no 64-bit integer is never        *)
(* reported with the minimum reason; the first insert row bearing it is    *)
(* ok, its string enters seenIDs and no diagnostic is written for the row; *)
(* the second insert row bearing it is an error with the duplicate reason. *)
NoDiagFor(filename, n) ==
    \A i \in 1..Len(out) :
        ~(out[i].kind = "diag" /\ out[i].file = filename /\ out[i].row = n)

C8_UnparsableId ==
    (Classified /\ last.isInsert /\ last.id \in NotInt64) =>
        /\ last.Message # "ERR_MIN"
        /\ ~last.preInsOcc =>
              /\ ~last.IsError
              /\ last.id \in seenIDs
              /\ last.id \notin errorIDs
              /\ NoDiagFor(last.file, last.row)
        /\ (last.preInsOcc /\ ~last.preErr) =>
              /\ last.IsError
              /\ last.Message = "ERR_DUP_INSERT"

\* C8: the second insert row bearing ABC
C8_Witness ==
    /\ Classified
    /\ last.isInsert
    /\ last.id = idABC
    /\ idABC \in seenIDs
    /\ last.Message = "ERR_DUP_INSERT"
    /\ out # <<>>
    /\ out[Len(out)].content = Join(<<idABC, fld1>>)

----------------------------------------------------------------------------
(* C9: the step in which listing, opening or decoding fails returns an     *)
(* error and no statistics, writes nothing, and leaves no summary line in  *)
(* the output; no step follows it.                                         *)
C9_AbortOnFailure ==
    [][ /\ pc # "failed"
        /\ pc' = "failed" =>
              /\ ret'.returned
              /\ ret'.stats = <<>>
              /\ ret'.err # NoErr
              /\ out' = out
              /\ \A i \in 1..Len(out') : out'[i].kind = "diag"
              /\ nread' = nread
              /\ idx' = idx ]_vars

\* C9: a row of a second file cannot be decoded after the first file's
\* errors were counted and reported
C9_Witness ==
    /\ pc = "failed"
    /\ ret.err.cause = "csv read error"
    /\ ret.err.line = 3
    /\ ret.stats = <<>>
    /\ stats.InsertErrors > 0
    /\ errCount > 0
    /\ Len(out) = 2

----------------------------------------------------------------------------
(* C10: a step that validates a row appends the row's diagnostic at once   *)
(* if the row is an error and writes nothing otherwise; the only other     *)
(* write is the summary, written by the step that ends the run, after      *)
(* which no step follows; so the diagnostics are in the order of the files *)
(* and of the rows within a file, and the summary is the one last line.    *)
DiagsInOrder ==
    \A i, j \in 1..Len(out) :
        (i < j /\ out[j].kind = "diag") =>
            /\ out[i].kind = "diag"
            /\ \/ StrLess(out[i].file, out[j].file)
               \/ out[i].file = out[j].file /\ out[i].row < out[j].row

SummaryLast ==
    /\ out # <<>>
    /\ out[Len(out)] = SummaryLine(ret.stats[1])
    /\ \A i \in 1..(Len(out) - 1) : out[i].kind = "diag"

C10_DiagnosticsThenSummary ==
    /\ [](DiagsInOrder /\ (pc = "done" => SummaryLast))
    /\ [][ /\ pc # "done"
           /\ ValidatesRow =>
                 out' = IF last'.IsError
                        THEN Append(out, DiagLine(last'.file, last'.row,
                                                  last'.Message,
                                                  Join(last'.record)))
                        ELSE out
           /\ (~ValidatesRow /\ pc' # "done") => out' = out
           /\ pc' = "done" => out' = Append(out, SummaryLine(stats)) ]_vars

\* C10: a run ends after errors in two files, in two rows of one of them
C10_Witness ==
    /\ pc = "done"
    /\ Len(out) = 4
    /\ out[1].file = out[2].file
    /\ out[2].file # out[3].file
    /\ out[4].kind = "summary"

----------------------------------------------------------------------------
(* C11: when a run ends successfully, the returned InsertErrors is the     *)
(* number of rows classified as errors in the files classified as insert,  *)
(* UpdateErrors is the number of such rows in the files classified as      *)
(* update, their sum is the number of diagnostic lines written, and the    *)
(* summary line carries exactly these two totals.                          *)

DiagCount(o) == Cardinality({i \in 1..Len(o) : o[i].kind = "diag"})

C11_TotalsCountErrorRows ==
    pc = "done" =>
        /\ ret.stats =
              <<[InsertErrors |-> nInsErr, UpdateErrors |-> nUpdErr]>>
        /\ nInsErr + nUpdErr = DiagCount(out)
        /\ out[Len(out)] =
              [kind |-> "summary", file |-> <<>>, row |-> 0, msg |-> "",
               content |-> <<>>, ins |-> nInsErr, upd |-> nUpdErr]

C11_Witness ==
    /\ pc = "done"
    /\ nInsErr = 2
    /\ nUpdErr = 1
    /\ DiagCount(out) = 3

----------------------------------------------------------------------------
(* C12: the row number of a diagnostic counts the header as row 1.  The    *)
(* k-th data row of a file is the (k+1)-th record read from it, and it is  *)
(* validated and, when it is an error, reported under the number k+1 and   *)
(* the name of the file being read, with its fields joined by commas; the  *)
(* numbering starts again in every file.                                   *)

C12_RowNumberCountsHeader ==
    pc = "rows" /\ reads >= 2 =>
        /\ last.file = entries[idx].name
        /\ last.row = reads
        /\ last.IsError =>
              out[Len(out)] =
                 [kind |-> "diag", file |-> entries[idx].name,
                  row |-> reads, msg |-> last.Message,
                  content |-> Join(last.record), ins |-> 0, upd |-> 0]

\* INS_1.csv holds 100,1 twice and INS_10.csv holds it once more: the
\* duplicate is "INS_1.csv(3) ... : 100,1", the repeat "INS_10.csv(2) ..."
C12_Witness ==
    /\ Len(out) >= 2
    /\ out[1] =
          [kind |-> "diag", file |-> fINS_1, row |-> 3,
           msg |-> "ERR_DUP_INSERT", content |-> <<49, 48, 48, 44, 49>>,
           ins |-> 0, upd |-> 0]
    /\ out[2] =
          [kind |-> "diag", file |-> fINS_10, row |-> 2,
           msg |-> "ERR_REPEAT", content |-> <<49, 48, 48, 44, 49>>,
           ins |-> 0, upd |-> 0]

----------------------------------------------------------------------------
(* C13: only regular .csv files whose name starts with the insert or the   *)
(* update prefix are processed.  A directory, a file with another          *)
(* extension and a .csv file with neither prefix are passed over without   *)
(* error: the step goes on to the next entry and leaves seenIDs, errorIDs, *)
(* both totals and the output as they were, and nothing of them is read.   *)

\* the names of the model that are to be processed, listed by hand: with
\* the prefixes INS and INS_1 the file UPD_1.csv has neither prefix
Processable ==
    IF cfg.InsertF = sINS /\ cfg.UpdateF = sINS_1
    THEN {fINS_1, fINS_10, fINS_2}
    ELSE {fINS_1, fINS_10, fINS_2, fUPD_1}

C13_OnlyClassifiedFiles ==
    /\ [](/\ opened \subseteq Processable
          /\ pc = "done" =>
                opened = Processable \cap {e.name : e \in dir})
    /\ [][ (/\ pc = "loop"
            /\ idx <= Len(entries)
            /\ entries[idx].name \notin Processable)
           => /\ pc' = "loop"
              /\ idx' = idx + 1
              /\ UNCHANGED <<seenIDs, errorIDs, stats, errCount, out, ret,
                             open, opened, reads, nread, last>> ]_vars

\* the run over the directory of five entries has ended: the directory
\* INS_0, INS_3.txt and OTH_1.csv were passed over between two files that
\* both produced diagnostics
C13_Witness ==
    /\ pc = "done"
    /\ Cardinality(dir) = 5
    /\ opened = {fINS_1, fUPD_1}
    /\ nInsErr >= 1
    /\ nUpdErr >= 1

----------------------------------------------------------------------------
(* C14: a row with fewer fields than are needed to reach the identifier    *)
(* column is classified ok, writes no diagnostic, and does not stop the    *)
(* run: no run fails on reading such a row.                                *)

C14_ShortRowIsOk ==
    /\ ~(/\ pc = "failed"
         /\ readStop.err = "wrong number of fields"
         /\ readStop.nfields <= cfg.IDColIdx)
    /\ (last.row > 0 /\ Len(last.record) <= cfg.IDColIdx) =>
          /\ ~last.IsError
          /\ NoDiagFor(last.file, last.row)

----------------------------------------------------------------------------
(* C15: a classified file without any row ends at its first read: that is *)
(* no failure, the run goes on to the next entry, and the identifier sets, *)
(* the totals and the output stay as they were.  The first row of a file   *)
(* that has one is dropped whatever it holds: reading it validates         *)
(* nothing, changes neither set and writes nothing, and the rows after it  *)
(* are read next.                                                          *)

C15_EmptyFileAndHeader ==
    [][ /\ (pc = "header" /\ readStop'.err = "EOF") =>
              /\ pc' = "loop"
              /\ idx' = idx + 1
              /\ ~ret'.returned
              /\ UNCHANGED <<seenIDs, errorIDs, stats, out, nInsErr,
                             nUpdErr, nread, last>>
        /\ (pc = "header" /\ reads' = 1) =>
              /\ pc' = "rows"
              /\ UNCHANGED <<seenIDs, errorIDs, stats, out, ret, nInsErr,
                             nUpdErr, nread, last, occ, insOcc>> ]_vars

\* INS_1.csv recorded 100, INS_10.csv held nothing, and the run is about
\* to go on with INS_2.csv
C15_Witness ==
    /\ pc = "loop"
    /\ idx = 3
    /\ entries[2].name = fINS_10
    /\ entries[3].name = fINS_2
    /\ readStop.err = "EOF"
    /\ reads = 0
    /\ seenIDs = {id100}
    /\ ~ret.returned

----------------------------------------------------------------------------
(* C16: a run made with a new Processor is not influenced by the run made  *)
(* before it.  It starts with both sets empty, its sets only ever hold     *)
(* identifiers of its own rows, and its classifications, diagnostics and   *)
(* statistics follow from its own rows as in a run made alone: the first   *)
(* row of the run to bear an identifier is an error only in an insert      *)
(* file and only for the minimum reason.                                   *)

C16_RunsDoNotLeak ==
    run = 2 =>
        /\ pc = "start" => seenIDs = {} /\ errorIDs = {}
        /\ seenIDs \subseteq insOcc
        /\ errorIDs \subseteq insOcc
        /\ seenIDs = okIns
        /\ errorIDs = minFlagged \cup dupFlagged
        /\ stats.InsertErrors + stats.UpdateErrors <= DiagCount(out)
        /\ DiagCount(out) = nInsErr + nUpdErr
        /\ (Classified /\ ~last.preOcc) =>
              /\ last.IsError =>
                    /\ last.isInsert
                    /\ last.id \in Under100
                    /\ last.Message = "ERR_MIN"
              /\ ~last.IsError =>
                    ~(last.isInsert /\ last.id \in Under100)

\* the first run met 100 only and flagged it; the second run, over other
\* identifiers, has ended with one of them accepted and 50 flagged
C16_Witness ==
    /\ run = 2
    /\ prevOnly100
    /\ pc = "done"
    /\ id100 \notin occ
    /\ seenIDs = {id4999999999}
    /\ errorIDs = {id50}
    /\ ret.stats = <<[InsertErrors |-> 1, UpdateErrors |-> 1]>>

----------------------------------------------------------------------------
(* C17: every file the file processor opens is closed when the processing  *)
(* of that file ends, be it at the end of the file, on an empty file, on a *)
(* header that cannot be read or on a row that cannot be decoded.  So the  *)
(* only file ever open is the one being read, at most one file is open at  *)
(* any moment, and none is open once Run has returned.                     *)

C17_HandlesClosed ==
    /\ Cardinality(open) <= 1
    /\ pc \in {"header", "rows"} => open = {entries[idx].name}
    /\ pc \in {"start", "loop", "done", "failed"} => open = {}
    /\ ret.returned => open = {}

\* one file was read to its end, and the next one stopped the run at a row
\* that could not be decoded
C17_Witness ==
    /\ pc = "failed"
    /\ ret.returned
    /\ ret.err.cause = "csv read error"
    /\ Cardinality(opened) = 2
    /\ open = {}

----------------------------------------------------------------------------
(* C18: over a whole run an identifier is reported with an original        *)
(* reason, duplicate or minimum, at most once; every other error row that  *)
(* bears it carries the repeat reason, and so does every error row of an   *)
(* update file.                                                            *)

C18_OneOriginalReasonPerId ==
    /\ origTwice = {}
    /\ minFlagged \cap dupFlagged = {}
    /\ (Classified /\ last.IsError) =>
          /\ last.Message \in {"ERR_REPEAT", "ERR_DUP_INSERT", "ERR_MIN"}
          /\ ~last.isInsert => last.Message = "ERR_REPEAT"
          /\ last.Message = "ERR_REPEAT" =>
                last.id \in minFlagged \cup dupFlagged

\* 100 was reported as a duplicate in an insert file, and a row of an
\* update file that bears it is reported with the repeat reason
C18_Witness ==
    /\ dupFlagged = {id100}
    /\ Classified
    /\ ~last.isInsert
    /\ last.id = id100
    /\ last.Message = "ERR_REPEAT"

----------------------------------------------------------------------------
(* C19: in every state seenIDs is exactly the set of the identifiers borne *)
(* by the rows of insert files classified ok so far.  An identifier        *)
(* reported for the minimum is never in it, no identifier ever leaves it,  *)
(* and an identifier is in seenIDs and in errorIDs at once only if it was  *)
(* reported as a duplicate.                                                *)

C19_SeenIsAcceptedInserts ==
    /\ [](/\ seenIDs = okIns
          /\ seenIDs \cap minFlagged = {}
          /\ seenIDs \cap errorIDs \subseteq dupFlagged)
    /\ [][seenIDs \subseteq seenIDs']_vars

\* 100 was accepted and then reported as a duplicate, 50 was reported for
\* the minimum
C19_Witness ==
    /\ id100 \in seenIDs \cap errorIDs
    /\ id100 \in dupFlagged
    /\ id50 \in minFlagged
    /\ id50 \notin seenIDs

----------------------------------------------------------------------------
(* C20: a .csv file whose name starts with the insert prefix and with the  *)
(* update prefix is processed once, as an insert file: its rows go through *)
(* the duplicate and minimum rules, and its error rows are added to the    *)
(* insert total and never to the update total.                             *)

\* with the prefixes INS and INS_1, INS_1.csv and INS_10.csv have both
BothPrefixes(name) ==
    /\ cfg.InsertF = sINS
    /\ cfg.UpdateF = sINS_1
    /\ name \in {fINS_1, fINS_10}

C20_BothPrefixesIsInsert ==
    /\ (pc \in {"header", "rows"} /\ BothPrefixes(entries[idx].name)) =>
          isInsert
    /\ (Classified /\ BothPrefixes(last.file)) =>
          /\ last.isInsert
          /\ (~last.preErr /\ last.preSeen) =>
                last.Message = "ERR_DUP_INSERT"
          /\ (~last.preErr /\ ~last.preSeen /\ last.id \in Under100) =>
                last.Message = "ERR_MIN"
    /\ \A i, j \in 1..Len(out) :
          (/\ i < j
           /\ out[i].kind = "diag"
           /\ out[j].kind = "diag"
           /\ BothPrefixes(out[i].file)
           /\ out[i].file = out[j].file) => out[i].row < out[j].row
    /\ (cfg.InsertF = sINS /\ cfg.UpdateF = sINS_1) =>
          /\ stats.UpdateErrors = 0
          /\ pc = "done" =>
                /\ ret.stats[1].UpdateErrors = 0
                /\ ret.stats[1].InsertErrors = DiagCount(out)

\* INS_1.csv and INS_10.csv start with both prefixes; the duplicate found
\* in INS_10.csv is counted in the insert total
C20_Witness ==
    /\ cfg.InsertF = sINS
    /\ cfg.UpdateF = sINS_1
    /\ pc = "done"
    /\ last.file = fINS_10
    /\ last.Message = "ERR_DUP_INSERT"
    /\ ret.stats = <<[InsertErrors |-> 1, UpdateErrors |-> 0]>>

====
